---- MODULE Spec2Model ----
(***************************************************************************)
(* A model of the bytecode assembler of src/assembler.py: the instruction  *)
(* encoder (_insn.to_bc_seq), the varint encoder (_encode_varint), the     *)
(* exception table entries (ExcTableE) and the builder (Assembler).        *)
(*                                                                         *)
(* Python integers are unbounded.  An instruction operand is held as a     *)
(* pair <<hi, lo>> standing for hi * 65536 + lo with lo in 0..65535 (hi    *)
(* negative for a negative operand), so that operands of 2^32 and more are *)
(* represented exactly.  The accumulator v of _encode_varint, which grows  *)
(* past 32 bits, is held as its sequence of 6-bit digits, least            *)
(* significant first, without leading zero digits (<<>> is 0).             *)
(***************************************************************************)
EXTENDS Integers, Sequences, FiniteSets, TLC

VARIABLES
  insns,              \* Assembler.insns: the instruction stream
  consts,             \* Assembler.consts
  names,              \* Assembler.names
  varnames,           \* Assembler.varnames
  exc_table_entries,  \* Assembler.exc_table_entries
  argnames,           \* Assembler.argnames
  nlabels,            \* number of Label objects constructed so far
  ret,                \* the last builder call: its arguments and its outcome
  enc                 \* the last application of an encoder: input and output

vars == <<insns, consts, names, varnames, exc_table_entries, argnames,
          nlabels, ret, enc>>

builder == <<insns, consts, names, varnames, exc_table_entries, argnames>>

(***************************************************************************)
(* Bounds of the model.                                                    *)
(***************************************************************************)
MaxVarint == 130

MaxInsns == 3

MaxBuildInsns == 4

MaxLabels == 2

MaxExc == 2

MaxArgs == 2

(***************************************************************************)
(* Integer helpers.                                                        *)
(***************************************************************************)
Half == 2 ^ 8

Limb == Half * Half

RECURSIVE bit_length(_)
bit_length(n) == IF n = 0 THEN 0 ELSE 1 + bit_length(n \div 2)

RECURSIVE BitOr(_, _)
BitOr(x, y) ==
  IF x = 0 THEN y
  ELSE IF y = 0 THEN x
  ELSE (IF x % 2 = 1 \/ y % 2 = 1 THEN 1 ELSE 0) + 2 * BitOr(x \div 2, y \div 2)

RECURSIVE Repeat(_, _)
Repeat(x, n) == IF n <= 0 THEN <<>> ELSE <<x>> \o Repeat(x, n - 1)

(***************************************************************************)
(* Operands as pairs <<hi, lo>>.                                           *)
(***************************************************************************)
Arg(hi, lo) == <<hi, lo>>

ArgNegative(arg) == arg[1] < 0

\* int.bit_length of a non-negative operand
ArgBitLength(arg) ==
  IF arg[1] > 0 THEN 16 + bit_length(arg[1]) ELSE bit_length(arg[2])

\* arg >> 8 and arg & 0xFF
ArgShr8(arg) == <<arg[1] \div Half, (arg[1] % Half) * Half + (arg[2] \div Half)>>

ArgLow8(arg) == arg[2] % Half

\* the bytes of the operand, least significant first
RECURSIVE to_bytes_little(_, _)
to_bytes_little(arg, n) ==
  IF n = 0 THEN <<>>
  ELSE <<ArgLow8(arg)>> \o to_bytes_little(ArgShr8(arg), n - 1)

\* int.to_bytes(n, "big", signed=False) for an operand that fits in n bytes
RECURSIVE to_bytes(_, _)
to_bytes(arg, n) ==
  IF n = 0 THEN <<>>
  ELSE Append(to_bytes(ArgShr8(arg), n - 1), ArgLow8(arg))

(***************************************************************************)
(* opcode._inline_cache_entries of the target interpreter (CPython 3.11),  *)
(* read at src/assembler.py:25: the number of 2-byte cache slots that      *)
(* follow each opcode.                                                     *)
(***************************************************************************)
EXTENDED_ARG == 144

_inline_cache_entries(opc) ==
  CASE opc = 25 -> 4
    [] opc = 60 -> 1
    [] opc = 92 -> 1
    [] opc = 95 -> 4
    [] opc = 106 -> 4
    [] opc = 107 -> 2
    [] opc = 116 -> 5
    [] opc = 122 -> 1
    [] opc = 160 -> 10
    [] opc = 166 -> 1
    [] opc = 171 -> 4
    [] OTHER -> 0

(***************************************************************************)
(* Encoder outcomes: err = "" and the bytes, or the error raised.          *)
(***************************************************************************)
Bytes(b) == [err |-> "", out |-> b]

Raise(e) == [err |-> e, out |-> <<>>]

\* padding of one byte per cache slot
cache_padding_single(cache) == Repeat(0, cache)

\* [0x00] * cache * 2
cache_padding(cache) == Repeat(0, cache * 2)

\* _insn.to_bc_seq
insn_to_bc_seq(opc, arg) ==
  LET bl == ArgBitLength(arg) IN
  IF bl > 4 * 8 THEN Raise("ArgTooBig")
  ELSE
    LET raw == to_bytes(arg, (bl + 7) \div 8)
        arg_bytes == IF Len(raw) = 0 THEN <<0>> ELSE raw
        RECURSIVE prefix(_)
        prefix(i) ==
          IF i >= Len(arg_bytes) THEN <<>>
          ELSE <<EXTENDED_ARG, arg_bytes[i]>> \o prefix(i + 1)
        ext == IF Len(arg_bytes) > 1 THEN prefix(1) ELSE <<>>
        cache == _inline_cache_entries(opc)
    IN Bytes(ext \o <<opc, arg_bytes[Len(arg_bytes)]>> \o cache_padding(cache))

\* Label.to_bc_seq
label_to_bc_seq == Bytes(<<>>)

(***************************************************************************)
(* _encode_varint.  v is a sequence of 6-bit digits, least significant     *)
(* first; VOr, VShl, VShr are v | d, v << 6 and v >> 6 on that form.       *)
(***************************************************************************)
VOr(v, d) ==
  IF v = <<>> THEN (IF d = 0 THEN <<>> ELSE <<d>>)
  ELSE [v EXCEPT ![1] = BitOr(v[1], d)]

VShl(v) == IF v = <<>> THEN <<>> ELSE <<0>> \o v

VShr(v) == IF v = <<>> THEN <<>> ELSE Tail(v)

\* first loop (lines 65-68): "reverse bytes of a"
RECURSIVE varint_reverse(_, _)
varint_reverse(a, v) ==
  IF a > 0 THEN varint_reverse(a \div 64, VShl(VOr(v, a % 64))) ELSE v

\* second loop (lines 70-75)
RECURSIVE varint_emit(_, _)
varint_emit(v, b) ==
  IF v = <<>> THEN b
  ELSE LET val == v[1]
           v2 == VShr(v)
       IN varint_emit(v2, Append(b, IF v2 # <<>> THEN BitOr(val, 64) ELSE val))

_encode_varint(value) ==
  LET b == varint_emit(varint_reverse(value, <<>>), <<>>)
  IN IF Len(b) = 0 THEN <<0>> ELSE b

(***************************************************************************)
(* The instruction stream.  An entry is an _insn (kind "insn") or a Label  *)
(* (kind "label", constructed with opcode -1 and operand -1); id is the    *)
(* identity of a Label object, by which `in` and index compare entries.    *)
(***************************************************************************)
Insn(opc, arg) == [kind |-> "insn", opc |-> opc, arg |-> arg, id |-> 0]

Label(id) == [kind |-> "label", opc |-> -1, arg |-> Arg(-1, Limb - 1), id |-> id]

\* x.to_bc_seq() by the entry's class
to_bc_seq(x) ==
  IF x.kind = "label" THEN label_to_bc_seq ELSE insn_to_bc_seq(x.opc, x.arg)

\* lbl in self.insns
Contains(s, lbl) == \E i \in 1..Len(s) : s[i] = Label(lbl)

\* self.insns.index(lbl), 1-based
IndexOf(s, lbl) == CHOOSE i \in 1..Len(s) :
                     s[i] = Label(lbl) /\ \A j \in 1..(i - 1) : s[j] # Label(lbl)

\* b + x, the first error raised ending the concatenation
Concat(p, x) ==
  IF p.err # "" THEN p ELSE IF x.err # "" THEN x ELSE Bytes(p.out \o x.out)

\* the concatenation of x.to_bc_seq() over the first n entries
RECURSIVE join_bc(_, _)
join_bc(s, n) ==
  IF n = 0 THEN Bytes(<<>>) ELSE Concat(join_bc(s, n - 1), to_bc_seq(s[n]))

\* Assembler._build_co_str
_build_co_str(s) == join_bc(s, Len(s))

Value(n) == [err |-> "", val |-> n]

Fail(e) == [err |-> e, val |-> 0]

\* len(bc), or the error raised while building bc
LenOf(bc) == IF bc.err # "" THEN Fail(bc.err) ELSE Value(Len(bc.out))

\* Assembler.label_codepos
label_codepos(s, lbl) ==
  IF ~Contains(s, lbl) THEN Fail("LabelNotFound")
  ELSE LenOf(join_bc(s, IndexOf(s, lbl) - 1))

\* Assembler.current_bytecode_index
current_bytecode_index(s) == LenOf(_build_co_str(s))

(***************************************************************************)
(* Exception table entries.                                                *)
(***************************************************************************)
ExcTableE(from_lbl, to_lbl, handler_lbl, depth, lasti) ==
  [from_lbl |-> from_lbl, to_lbl |-> to_lbl, handler_lbl |-> handler_lbl,
   depth |-> depth, lasti |-> lasti]

\* depth << 1 | int(lasti)
DepthLasti(e) == BitOr(e.depth * 2, IF e.lasti THEN 1 ELSE 0)

\* the varints of the fields, back to back
varints(f) ==
  Bytes(_encode_varint(f[1]) \o _encode_varint(f[2])
        \o _encode_varint(f[3]) \o _encode_varint(f[4]))

\* the four fields in the order ExcTableE.to_bc_seq emits them
ExcFieldsSwapped(e, st, en, handler) ==
  <<st \div 2, handler \div 2, (en - st) \div 2, DepthLasti(e)>>

ExcFields(e, st, en, handler) ==
  <<st \div 2, (en - st) \div 2, handler \div 2, DepthLasti(e)>>

\* lines 54-59, given the three outcomes of label_codepos
exc_encode(e, st, en, handler) ==
  IF st.err # "" THEN Raise(st.err)
  ELSE IF en.err # "" THEN Raise(en.err)
  ELSE IF handler.err # "" THEN Raise(handler.err)
  ELSE varints(ExcFields(e, st.val, en.val, handler.val))

\* ExcTableE.to_bc_seq
exc_to_bc_seq(e, s) ==
  exc_encode(e, label_codepos(s, e.from_lbl), label_codepos(s, e.to_lbl),
             label_codepos(s, e.handler_lbl))

RECURSIVE join_exc(_, _, _)
join_exc(t, s, n) ==
  IF n = 0 THEN Bytes(<<>>)
  ELSE Concat(join_exc(t, s, n - 1), exc_to_bc_seq(t[n], s))

\* Assembler._build_exc_table
_build_exc_table(t, s) == join_exc(t, s, Len(t))

(***************************************************************************)
(* The pools: consts_create_or_get, names_create_or_get and                *)
(* locals_create_or_get are the same code on self.consts, self.names and   *)
(* self.varnames.                                                          *)
(***************************************************************************)
\* value in pool
InPool(pool, value) == \E i \in 1..Len(pool) : pool[i] = value

\* pool.index(value), 0-based as in the source
PoolIndex(pool, value) ==
  (CHOOSE i \in 1..Len(pool) :
     pool[i] = value /\ \A j \in 1..(i - 1) : pool[j] # value) - 1

\* a create-or-get that appends without looking the value up
create_or_get_always(pool, value) ==
  [pool |-> Append(pool, value), idx |-> Len(pool)]

\* the body shared by the three create-or-get methods: the pool afterwards
\* and the index returned
create_or_get(pool, value) ==
  IF InPool(pool, value) THEN [pool |-> pool, idx |-> PoolIndex(pool, value)]
  ELSE [pool |-> Append(pool, value), idx |-> Len(pool)]

\* Assembler.__init__: the locals after registering every argument name
RECURSIVE init_varnames(_, _)
init_varnames(arg_names, n) ==
  IF n = 0 THEN <<>>
  ELSE create_or_get(init_varnames(arg_names, n - 1), arg_names[n]).pool

(***************************************************************************)
(* Outcomes of builder calls.                                              *)
(***************************************************************************)
NoCode ==
  [argcount |-> 0, nlocals |-> 0, co_code |-> <<>>, consts |-> <<>>,
   names |-> <<>>, varnames |-> <<>>, exceptiontable |-> <<>>]

Ret(op, err, val) ==
  [op |-> op, err |-> err, val |-> val, lbl |-> 0, opc |-> 0,
   arg |-> Arg(0, 0), name |-> "", code |-> NoCode]

NoEnc ==
  [fn |-> "none", opc |-> 0, arg |-> Arg(0, 0), value |-> 0, err |-> "",
   out |-> <<>>]

(***************************************************************************)
(* The stream operations.                                                  *)
(***************************************************************************)
\* the checks of add_insn (lines 180-183): the error raised, "" for none
add_insn_check(opcode, arg) ==
  IF opcode > 255 \/ opcode < 0 THEN "OpcodeRange"
  ELSE IF ArgNegative(arg) THEN "ArgBounds"
  ELSE ""

\* Assembler.add_insn
add_insn(opcode, arg) ==
  LET e == add_insn_check(opcode, arg) IN
  /\ insns' = IF e = "" THEN Append(insns, Insn(opcode, arg)) ELSE insns
  /\ ret' = [Ret("add_insn", e, 0) EXCEPT !.opc = opcode, !.arg = arg]
  /\ UNCHANGED <<consts, names, varnames, exc_table_entries, argnames,
                 nlabels, enc>>

\* str.upper on the mnemonics the callers pass
upper(name) ==
  CASE name = "precall" -> "PRECALL"
    [] name = "resume" -> "RESUME"
    [] OTHER -> name

\* opcode.opmap of the target interpreter, -1 for a name it does not hold
opmap(name) ==
  CASE name = "POP_TOP" -> 1
    [] name = "RESUME" -> 151
    [] name = "PRECALL" -> 166
    [] name = "CALL" -> 171
    [] OTHER -> -1

\* Assembler.insn
insn(name, arg) ==
  LET opm == opmap(upper(name)) IN
  IF opm = -1
  THEN /\ ret' = [Ret("insn", "UnknownInsn", 0) EXCEPT !.name = name, !.arg = arg]
       /\ UNCHANGED <<insns, consts, names, varnames, exc_table_entries,
                      argnames, nlabels, enc>>
  ELSE LET e == add_insn_check(opm, arg) IN
       /\ insns' = IF e = "" THEN Append(insns, Insn(opm, arg)) ELSE insns
       /\ ret' = [Ret("insn", e, 0) EXCEPT !.name = name, !.opc = opm, !.arg = arg]
       /\ UNCHANGED <<consts, names, varnames, exc_table_entries, argnames,
                      nlabels, enc>>

\* Label(): a caller constructs a label without placing it
NewLabel ==
  /\ nlabels' = nlabels + 1
  /\ ret' = [Ret("Label", "", 0) EXCEPT !.lbl = nlabels + 1]
  /\ UNCHANGED <<builder, enc>>

\* Assembler.label; lbl = 0 stands for None: a new Label is constructed
label(lbl) ==
  LET l == IF lbl = 0 THEN nlabels + 1 ELSE lbl
      dup == Contains(insns, l)
  IN
  /\ nlabels' = IF lbl = 0 THEN nlabels + 1 ELSE nlabels
  /\ insns' = IF dup THEN insns ELSE Append(insns, Label(l))
  /\ ret' = [Ret("label", IF dup THEN "AlreadyRegistered" ELSE "", 0)
               EXCEPT !.lbl = l]
  /\ UNCHANGED <<consts, names, varnames, exc_table_entries, argnames, enc>>

\* a call of Assembler.label_codepos
LabelCodepos(lbl) ==
  LET r == label_codepos(insns, lbl) IN
  /\ ret' = [Ret("label_codepos", r.err, r.val) EXCEPT !.lbl = lbl]
  /\ UNCHANGED <<builder, nlabels, enc>>

\* a call of Assembler.current_bytecode_index
CurrentBytecodeIndex ==
  LET r == current_bytecode_index(insns) IN
  /\ ret' = Ret("current_bytecode_index", r.err, r.val)
  /\ UNCHANGED <<builder, nlabels, enc>>

\* Assembler.add_trycatch
add_trycatch(from_lbl, to_lbl, target_lbl, depth, is_lasti) ==
  /\ exc_table_entries' =
       Append(exc_table_entries,
              ExcTableE(from_lbl, to_lbl, target_lbl, depth, is_lasti))
  /\ ret' = Ret("add_trycatch", "", 0)
  /\ UNCHANGED <<insns, consts, names, varnames, argnames, nlabels, enc>>

(***************************************************************************)
(* Assembler.pack_code_object: the arguments handed to CodeType, in the    *)
(* order Python evaluates them (_build_co_str before _build_exc_table).    *)
(***************************************************************************)
\* the CodeType call of lines 225-242, given the two byte strings built
\* (the interpreter refuses an argument count above the number of locals)
pack_args(bc, exc, c, n, v, a) ==
  IF bc.err # "" THEN [err |-> bc.err, code |-> NoCode]
  ELSE IF exc.err # "" THEN [err |-> exc.err, code |-> NoCode]
  ELSE IF Len(a) > Len(v) THEN [err |-> "VarnamesTooSmall", code |-> NoCode]
  ELSE [err |-> "",
        code |-> [argcount |-> Len(a), nlocals |-> Len(v),
                  co_code |-> bc.out, consts |-> c, names |-> n,
                  varnames |-> v, exceptiontable |-> exc.out]]

pack_result(s, t, c, n, v, a) ==
  pack_args(_build_co_str(s), _build_exc_table(t, s), c, n, v, a)

\* a build that consumes the exception ranges it has encoded
pack_code_object_consuming ==
  /\ ret' = [Ret("pack_code_object",
                 pack_result(insns, exc_table_entries, consts, names,
                             varnames, argnames).err, 0)
               EXCEPT !.code = pack_result(insns, exc_table_entries, consts,
                                           names, varnames, argnames).code]
  /\ exc_table_entries' = <<>>
  /\ UNCHANGED <<insns, consts, names, varnames, argnames, nlabels, enc>>

pack_code_object ==
  LET r == pack_result(insns, exc_table_entries, consts, names, varnames,
                       argnames) IN
  /\ ret' = [Ret("pack_code_object", r.err, 0) EXCEPT !.code = r.code]
  /\ UNCHANGED <<builder, nlabels, enc>>

(***************************************************************************)
(* The pool operations.                                                    *)
(***************************************************************************)
consts_create_or_get(value) ==
  LET r == create_or_get(consts, value) IN
  /\ consts' = r.pool
  /\ ret' = [Ret("consts_create_or_get", "", r.idx) EXCEPT !.name = value]
  /\ UNCHANGED <<insns, names, varnames, exc_table_entries, argnames,
                 nlabels, enc>>

names_create_or_get(value) ==
  LET r == create_or_get(names, value) IN
  /\ names' = r.pool
  /\ ret' = [Ret("names_create_or_get", "", r.idx) EXCEPT !.name = value]
  /\ UNCHANGED <<insns, consts, varnames, exc_table_entries, argnames,
                 nlabels, enc>>

locals_create_or_get(value) ==
  LET r == create_or_get(varnames, value) IN
  /\ varnames' = r.pool
  /\ ret' = [Ret("locals_create_or_get", "", r.idx) EXCEPT !.name = value]
  /\ UNCHANGED <<insns, consts, names, exc_table_entries, argnames,
                 nlabels, enc>>

(***************************************************************************)
(* Applications of the encoders on their own.                              *)
(***************************************************************************)
EncodeInsn(opc, arg) ==
  LET r == insn_to_bc_seq(opc, arg) IN
  /\ enc' = [NoEnc EXCEPT !.fn = "insn", !.opc = opc, !.arg = arg,
                          !.err = r.err, !.out = r.out]
  /\ UNCHANGED <<builder, nlabels, ret>>

EncodeLabel ==
  /\ enc' = [NoEnc EXCEPT !.fn = "label", !.opc = -1, !.arg = Arg(-1, Limb - 1),
                          !.err = label_to_bc_seq.err, !.out = label_to_bc_seq.out]
  /\ UNCHANGED <<builder, nlabels, ret>>

EncodeVarint(value) ==
  /\ enc' = [NoEnc EXCEPT !.fn = "varint", !.value = value,
                          !.out = _encode_varint(value)]
  /\ UNCHANGED <<builder, nlabels, ret>>

(***************************************************************************)
(* Inputs the callers draw from.                                           *)
(***************************************************************************)
Pow32 == Arg(Limb, 0)

CodecOpcodes == {0, 1, 25, 107, 116, EXTENDED_ARG, 160, 166, 171, 255}

CodecArgs ==
  {Arg(0, 0), Arg(0, 1), Arg(0, 255), Arg(0, 256), Arg(0, Limb - 1),
   Arg(1, 0), Arg(255, Limb - 1), Arg(256, 0), Arg(258, 772),
   Arg(Limb - 1, Limb - 1), Pow32}

VarintInputs == (-1..MaxVarint) \cup {4095, 4096, 2 ^ 30}

StreamOpcodes == {-1, 166, 256}

StreamArgs == {Arg(-1, Limb - 1), Arg(0, 0), Arg(0, 256), Pow32}

StreamNames == {"resume", "NOPE"}

BuildInsns == {<<1, Arg(0, 0)>>, <<166, Arg(0, 0)>>}

FullInsns == {<<166, Arg(0, 0)>>, <<1, Pow32>>}

ExcLabels == {<<1, 2, 2>>, <<2, 1, 1>>, <<1, 1, 2>>}

ExcDepths == {<<0, TRUE>>, <<1, FALSE>>}

LocalNames == {"x", "y", "z"}

ConstValues == {"None", "Hello"}

NameValues == {"print", "e"}

RECURSIVE SeqsUpTo(_, _)
SeqsUpTo(S, n) ==
  IF n = 0 THEN {<<>>}
  ELSE LET r == SeqsUpTo(S, n - 1) IN
       r \cup {Append(q, x) : q \in {q \in r : Len(q) = n - 1}, x \in S}

ArgNameLists == SeqsUpTo({"x", "y"}, MaxArgs)

(***************************************************************************)
(* Assembler.__init__(arg_names): the state after construction.            *)
(***************************************************************************)
Constructed(arg_names) ==
  /\ insns = <<>>
  /\ consts = <<>>
  /\ names = <<>>
  /\ exc_table_entries = <<>>
  /\ argnames = arg_names
  /\ varnames = init_varnames(arg_names, Len(arg_names))
  /\ nlabels = 0
  /\ ret = Ret("__init__", "", 0)
  /\ enc = NoEnc

Init == Constructed(<<>>)

InitPool == \E a \in ArgNameLists : Constructed(a)

(***************************************************************************)
(* The encoders applied to drawn inputs.                                   *)
(***************************************************************************)
NextCodec ==
  \/ \E o \in CodecOpcodes, a \in CodecArgs : EncodeInsn(o, a)
  \/ EncodeLabel
  \/ \E v \in VarintInputs : EncodeVarint(v)

SpecCodec == Init /\ [][NextCodec]_vars

(***************************************************************************)
(* The stream and its queries.                                             *)
(***************************************************************************)
NextStream ==
  \/ \E o \in StreamOpcodes, a \in StreamArgs :
        Len(insns) < MaxInsns /\ add_insn(o, a)
  \/ \E n \in StreamNames : Len(insns) < MaxInsns /\ insn(n, Arg(0, 0))
  \/ nlabels < MaxLabels /\ NewLabel
  \/ \E l \in 0..nlabels :
        /\ Len(insns) < MaxInsns
        /\ l = 0 => nlabels < MaxLabels
        /\ label(l)
  \/ \E l \in 1..nlabels : LabelCodepos(l)
  \/ CurrentBytecodeIndex

SpecStream == Init /\ [][NextStream]_vars

(***************************************************************************)
(* Building: stream, exception ranges and pack_code_object.                *)
(***************************************************************************)
NextBuild ==
  \/ \E i \in BuildInsns : Len(insns) < MaxBuildInsns /\ add_insn(i[1], i[2])
  \/ Len(insns) < MaxBuildInsns /\ nlabels < MaxLabels /\ label(0)
  \/ \E l \in ExcLabels, d \in ExcDepths :
        /\ Len(exc_table_entries) < MaxExc
        /\ \A i \in 1..3 : l[i] <= nlabels
        /\ add_trycatch(l[1], l[2], l[3], d[1], d[2])
  \/ pack_code_object

SpecBuild == Init /\ [][NextBuild]_vars

(***************************************************************************)
(* The pools, from any constructor argument list.                          *)
(***************************************************************************)
NextPool ==
  \/ \E x \in ConstValues : consts_create_or_get(x)
  \/ \E x \in NameValues : names_create_or_get(x)
  \/ \E x \in LocalNames : locals_create_or_get(x)
  \/ pack_code_object

SpecPool == InitPool /\ [][NextPool]_vars

(***************************************************************************)
(* The whole builder: every operation, on few inputs.                      *)
(***************************************************************************)
Next ==
  \/ \E i \in FullInsns : Len(insns) < MaxInsns /\ add_insn(i[1], i[2])
  \/ Len(insns) < MaxInsns /\ insn("resume", Arg(0, 0))
  \/ Len(insns) < MaxInsns /\ nlabels < MaxLabels /\ label(0)
  \/ /\ Len(exc_table_entries) < MaxExc
     /\ nlabels >= 1
     /\ add_trycatch(1, nlabels, nlabels, 1, TRUE)
  \/ \E l \in 1..nlabels : LabelCodepos(l)
  \/ CurrentBytecodeIndex
  \/ consts_create_or_get("None")
  \/ names_create_or_get("print")
  \/ locals_create_or_get("x")
  \/ pack_code_object

Spec == Init /\ [][Next]_vars

(***************************************************************************)
(* Definitions the properties are stated with.                             *)
(***************************************************************************)
\* the least k with arg < 256^k, at least 1 (5 stands for "more than 4")
NeededBytes(arg) ==
  IF arg[1] = 0 THEN (IF arg[2] < Half THEN 1 ELSE 2)
  ELSE IF arg[1] < Half THEN 3
  ELSE IF arg[1] < Limb THEN 4
  ELSE 5

\* the operand whose big-endian bytes are the first n of bs
RECURSIVE ArgOfBytes(_, _)
ArgOfBytes(bs, n) ==
  IF n = 0 THEN Arg(0, 0)
  ELSE LET p == ArgOfBytes(bs, n - 1)
           t == p[2] * Half + bs[n]
       IN Arg(p[1] * Half + (t \div Limb), t % Limb)

\* the varint decoder: value = value * 64 + (byte & 0x3F), stopping after
\* the first byte whose 0x40 bit is clear
RECURSIVE decode_from(_, _, _)
decode_from(bs, i, value) ==
  IF i > Len(bs) THEN value
  ELSE LET v2 == value * 64 + (bs[i] % 64) IN
       IF (bs[i] \div 64) % 2 = 1 THEN decode_from(bs, i + 1, v2) ELSE v2

decode(bs) == decode_from(bs, 1, 0)

\* the encoded length of a stream entry that encodes
EntryLen(x) == Len(to_bc_seq(x).out)

\* the sum of the encoded lengths of the first n entries
RECURSIVE SumLen(_, _)
SumLen(s, n) == IF n = 0 THEN 0 ELSE SumLen(s, n - 1) + EntryLen(s[n])

\* the position of a placed label in the stream
PosOf(lbl) == CHOOSE i \in 1..Len(insns) : insns[i] = Label(lbl)

\* the offset of a placed label: the lengths of the entries before it
OffsetOf(lbl) == SumLen(insns, PosOf(lbl) - 1)

Placed(lbl) == \E i \in 1..Len(insns) : insns[i] = Label(lbl)

Encodes(x) == to_bc_seq(x).err = ""

(***************************************************************************)
(* C1: for a valid opcode o and an operand a needing k <= 4 bytes, the     *)
(* instruction encodes without error to k-1 pairs (0x90, operand byte),    *)
(* most significant byte first, then the pair (o, least significant byte   *)
(* of a), then 2 * paddingSlots(o) zero bytes; the operand bytes           *)
(* reassemble to a.  A label encodes to the empty byte sequence.           *)
(***************************************************************************)
C1_InsnEncoding ==
  /\ enc.fn = "label" => enc.err = "" /\ enc.out = <<>>
  /\ (enc.fn = "insn" /\ NeededBytes(enc.arg) <= 4) =>
       LET k == NeededBytes(enc.arg)
           pad == _inline_cache_entries(enc.opc)
           out == enc.out
       IN /\ enc.err = ""
          /\ Len(out) = 2 * (k - 1) + 2 + 2 * pad
          /\ \A i \in 1..(k - 1) : out[2 * i - 1] = EXTENDED_ARG
          /\ out[2 * k - 1] = enc.opc
          /\ out[2 * k] = enc.arg[2] % Half
          /\ \A i \in (2 * k + 1)..Len(out) : out[i] = 0
          /\ ArgOfBytes([i \in 1..k |-> out[2 * i]], k) = enc.arg

C1_Witness ==
  /\ enc.fn = "insn"
  /\ enc.opc = 171
  /\ enc.arg = Arg(258, 772)
  /\ enc.out = <<EXTENDED_ARG, 1, EXTENDED_ARG, 2, EXTENDED_ARG, 3, 171, 4>>
                \o <<0, 0, 0, 0, 0, 0, 0, 0>>

(***************************************************************************)
(* C2: decoding the varint of a non-negative v gives v back.               *)
(***************************************************************************)
C2_RoundTrip ==
  (enc.fn = "varint" /\ enc.value >= 0) => decode(enc.out) = enc.value

(***************************************************************************)
(* C3: the varint of a non-negative v is its max(1, ceil(bitlength/6))     *)
(* 6-bit groups, most significant first, with bit 0x40 set on every byte   *)
(* but the last and clear on the last.                                     *)
(***************************************************************************)
C3_MinimalGroups ==
  (enc.fn = "varint" /\ enc.value >= 0) =>
    LET groups == (bit_length(enc.value) + 5) \div 6
        n == IF groups = 0 THEN 1 ELSE groups
    IN /\ Len(enc.out) = n
       /\ \A i \in 1..n :
            /\ i <= Len(enc.out) =>
                 /\ enc.out[i] % 64 = (enc.value \div (64 ^ (n - i))) % 64
                 /\ enc.out[i] \div 64 = (IF i < n THEN 1 ELSE 0)

(***************************************************************************)
(* C4: a built exception table is the concatenation, in registration       *)
(* order, of one quadruple per range: the varints of from/2, (to-from)/2,  *)
(* handler/2 and depth << 1 | lasti, the offsets being those of the labels *)
(* in the current stream.                                                  *)
(***************************************************************************)
Quadruple(e) ==
  _encode_varint(OffsetOf(e.from_lbl) \div 2)
  \o _encode_varint((OffsetOf(e.to_lbl) - OffsetOf(e.from_lbl)) \div 2)
  \o _encode_varint(OffsetOf(e.handler_lbl) \div 2)
  \o _encode_varint(2 * e.depth + (IF e.lasti THEN 1 ELSE 0))

RECURSIVE Quadruples(_)
Quadruples(n) ==
  IF n = 0 THEN <<>>
  ELSE Quadruples(n - 1) \o Quadruple(exc_table_entries[n])

C4_ExcTable ==
  (ret.op = "pack_code_object" /\ ret.err = "") =>
    ret.code.exceptiontable = Quadruples(Len(exc_table_entries))

C4_Witness ==
  /\ ret.op = "pack_code_object"
  /\ ret.err = ""
  /\ Len(exc_table_entries) = 2
  /\ exc_table_entries[1].from_lbl # exc_table_entries[2].from_lbl
  /\ OffsetOf(1) > 0
  /\ OffsetOf(2) > OffsetOf(1)
  /\ Len(ret.code.exceptiontable) > 8

(***************************************************************************)
(* C5: label_codepos(lbl) fails with the unregistered-label error exactly  *)
(* when lbl is not in the stream, and otherwise returns the sum of the     *)
(* encoded lengths of the entries before the label.                        *)
(***************************************************************************)
C5_LabelCodepos ==
  ret.op = "label_codepos" =>
    /\ (ret.err = "LabelNotFound") <=> ~Placed(ret.lbl)
    /\ Placed(ret.lbl) => (ret.err = "" /\ ret.val = OffsetOf(ret.lbl))

(***************************************************************************)
(* C6: every instruction in the stream has its opcode in 0..255 and a      *)
(* non-negative operand that fits in 4 bytes.                              *)
(***************************************************************************)
C6_OperandsFit ==
  \A i \in 1..Len(insns) :
    insns[i].kind = "insn" =>
      /\ insns[i].opc \in 0..255
      /\ ~ArgNegative(insns[i].arg)
      /\ NeededBytes(insns[i].arg) <= 4

(***************************************************************************)
(* C7: a create-or-get with a value the pool holds returns its index and   *)
(* leaves the pool unchanged; with a new value it appends it and returns   *)
(* the previous length; a pool never holds two equal entries and never     *)
(* moves an entry, so an index issued for a value stays its index.         *)
(***************************************************************************)
NoDup(pool) ==
  \A i \in 1..Len(pool) : \A j \in 1..Len(pool) : pool[i] = pool[j] => i = j

Held(pool, x) == \E i \in 1..Len(pool) : pool[i] = x

PoolCall(op, pool, pool2) ==
  /\ ret'.op = op =>
       /\ ret'.err = ""
       /\ IF Held(pool, ret'.name)
          THEN pool2 = pool /\ pool[ret'.val + 1] = ret'.name
          ELSE pool2 = Append(pool, ret'.name) /\ ret'.val = Len(pool)
  /\ ret'.op # op => pool2 = pool
  /\ Len(pool2) >= Len(pool)
  /\ \A i \in 1..Len(pool) : pool2[i] = pool[i]
  /\ NoDup(pool2)

C7_Pools ==
  /\ NoDup(consts) /\ NoDup(names) /\ NoDup(varnames)
  /\ [][/\ PoolCall("consts_create_or_get", consts, consts')
        /\ PoolCall("names_create_or_get", names, names')
        /\ PoolCall("locals_create_or_get", varnames, varnames')]_vars

C7_Witness ==
  /\ ret.op = "locals_create_or_get"
  /\ ret.name = "x"
  /\ ret.val = 1
  /\ varnames = <<"y", "x", "z">>
  /\ Len(consts) = 2

(***************************************************************************)
(* C8: pack_code_object, current_bytecode_index and label_codepos leave    *)
(* the stream, the pools and the exception ranges unchanged, and a call    *)
(* repeated with nothing in between returns what it returned before.       *)
(***************************************************************************)
ReadOnly(op) ==
  op \in {"pack_code_object", "current_bytecode_index", "label_codepos"}

C8_BuildIsPure ==
  [][/\ ReadOnly(ret'.op) => UNCHANGED builder
     /\ (ReadOnly(ret'.op) /\ ret.op = ret'.op /\ ret.lbl = ret'.lbl)
          => ret' = ret]_vars

C8_Witness ==
  /\ ret.op = "pack_code_object"
  /\ ret.err = ""
  /\ Len(ret.code.co_code) > 0
  /\ Len(ret.code.exceptiontable) > 0
  /\ ret.code.consts = <<"None">>
  /\ ret.code.names = <<"print">>
  /\ ret.code.varnames = <<"x">>

(***************************************************************************)
(* C9: in a built code unit the argument count is the number of local      *)
(* slots registered from the argument names at construction, and the local *)
(* count is the size of the local pool.                                    *)
(***************************************************************************)
ArgSlots == Cardinality({argnames[i] : i \in 1..Len(argnames)})

C9_ArgCount ==
  (ret.op = "pack_code_object" /\ ret.err = "") =>
    /\ ret.code.argcount = ArgSlots
    /\ ret.code.nlocals = Len(varnames)

(***************************************************************************)
(* C10: every stream entry that encodes has an even length (0 for a label, *)
(* 2*(k-1) + 2 + 2*paddingSlots for an instruction), so every label offset *)
(* that resolves, and the difference of any two, is even and halving it is *)
(* exact.                                                                  *)
(***************************************************************************)
Even(n) == n % 2 = 0 /\ (n \div 2) * 2 = n

C10_EvenOffsets ==
  /\ \A i \in 1..Len(insns) :
       Encodes(insns[i]) =>
         /\ Even(EntryLen(insns[i]))
         /\ EntryLen(insns[i]) =
              (IF insns[i].kind = "label" THEN 0
               ELSE 2 * (NeededBytes(insns[i].arg) - 1) + 2
                    + 2 * _inline_cache_entries(insns[i].opc))
  /\ \A l \in 1..nlabels :
       label_codepos(insns, l).err = "" =>
         /\ Even(label_codepos(insns, l).val)
         /\ \A m \in 1..nlabels :
              label_codepos(insns, m).err = "" =>
                Even(label_codepos(insns, m).val - label_codepos(insns, l).val)
  /\ (ret.op = "label_codepos" /\ ret.err = "") => Even(ret.val)

C10_Witness ==
  /\ ret.op = "label_codepos"
  /\ ret.err = ""
  /\ ret.val = 10
  /\ Len(insns) = 3

====
